---- MODULE Spec2Model ----
(***************************************************************************)
(* Student management console (src/main.py): a two-level menu loop over a  *)
(* Users table and a Students table reached through one database           *)
(* connection per operation.                                               *)
(*                                                                         *)
(* Text typed at a prompt is a sequence of one-character strings, so that  *)
(* str.strip() and float() are computed rather than assumed.  Scores are   *)
(* held in tenths (92.5 is 925).  SQL "=" is exact equality of the bound   *)
(* parameter and the column.                                               *)
(***************************************************************************)
EXTENDS Integers, Sequences, FiniteSets, TLC

VARIABLES
    pc,             \* "start" (before init_db), "main", "student", "done"
    exitStatus,     \* -1 while the process runs, else its exit status
    tables,         \* names of the tables present in the database file
    users,          \* rows of Users, in insertion order
    students,       \* rows of Students, in insertion order
    nextStudentId,  \* next AUTOINCREMENT value of Students.id
    op,             \* the function the last step ran
    args,           \* what was typed at its prompts, in order, as typed
    fault,          \* where the driver failed during it
    out,            \* the messages it printed
    data,           \* the rows and numbers it printed
    ret,            \* what it returned
    events          \* the calls it made on the connection, in order

vars == <<pc, exitStatus, tables, users, students, nextStudentId,
          op, args, fault, out, data, ret, events>>

-----------------------------------------------------------------------------
(* Bounds *)

MaxAdds == 2        \* successful INSERTs into Students in one run

-----------------------------------------------------------------------------
(* Text *)

Space == " "

RECURSIVE lstrip(_)
lstrip(s) == IF s # <<>> /\ Head(s) = Space THEN lstrip(Tail(s)) ELSE s

RECURSIVE rstrip(_)
rstrip(s) ==
    IF s # <<>> /\ s[Len(s)] = Space THEN rstrip(SubSeq(s, 1, Len(s) - 1)) ELSE s

strip(s) == rstrip(lstrip(s))

DigitChars == {"0", "1", "2", "3", "4", "5", "6", "7", "8", "9"}

DigitVal(c) ==
    CASE c = "0" -> 0 [] c = "1" -> 1 [] c = "2" -> 2 [] c = "3" -> 3
      [] c = "4" -> 4 [] c = "5" -> 5 [] c = "6" -> 6 [] c = "7" -> 7
      [] c = "8" -> 8 [] c = "9" -> 9

RECURSIVE IntVal(_)
IntVal(s) ==
    IF s = <<>> THEN 0
    ELSE 10 * IntVal(SubSeq(s, 1, Len(s) - 1)) + DigitVal(s[Len(s)])

\* float(text) for texts over digits, "." and letters with at most one
\* fractional digit: whether it parses (else ValueError), and its value in
\* tenths.
IsFloat(s) ==
    LET t == strip(s)
        dots == {i \in 1..Len(t) : t[i] = "."}
    IN  /\ t # <<>>
        /\ Cardinality(dots) <= 1
        /\ \A i \in 1..Len(t) : t[i] \in DigitChars \cup {"."}
        /\ Len(t) - Cardinality(dots) >= 1
        /\ \A k \in dots : Len(t) - k <= 1

float(s) ==
    LET t == strip(s)
        dots == {i \in 1..Len(t) : t[i] = "."}
    IN  IF dots = {} THEN 10 * IntVal(t)
        ELSE LET k == CHOOSE i \in dots : TRUE
             IN  10 * IntVal(SubSeq(t, 1, k - 1)) + IntVal(SubSeq(t, k + 1, Len(t)))

\* name LIKE '%fragment%'
Like(name, fragment) ==
    \E i \in 1..(Len(name) + 1) :
        /\ i + Len(fragment) - 1 <= Len(name)
        /\ SubSeq(name, i, i + Len(fragment) - 1) = fragment

-----------------------------------------------------------------------------
(* Driver *)

NoFault == "none"
NoDriver == "nodriver"       \* find_access_driver() returns None
ConnectFails == "connect"    \* pyodbc.connect raises pyodbc.Error
ExecuteFails == "execute"    \* the (first) statement raises
Execute2Fails == "execute2"  \* the UPDATE after the SELECT raises
CommitFails == "commit"      \* conn.commit() raises

SystemExit == "SystemExit"
Raised == "Raised"
Connected == "Connected"

get_connection(f) ==
    IF f = NoDriver THEN SystemExit
    ELSE IF f = ConnectFails THEN Raised
    ELSE Connected

Open == "open"
Execute == "execute"
Commit == "commit"
Release == "release"

\* A connection released by the last line of the block only, not by its scope.
WithLeakOnError(body, failed) ==
    IF failed THEN <<Open>> \o body ELSE <<Open>> \o body \o <<Release>>

\* `with get_connection() as conn:` around the calls `body`, which end in an
\* exception when `failed`: the handle is local to the function and is let go
\* of however the block is left.
With(body, failed) == <<Open>> \o body \o <<Release>>

None == "None"
True == "True"
False == "False"

\* What one call of an operation function did: the database it left, the
\* prompts it read, the driver failure it met, what it printed, what it
\* returned (or the exception that escaped it) and its connection calls.
Result(db, a, f, o, r, ev) ==
    [db |-> db, args |-> a, fault |-> f, out |-> o, data |-> <<>>, ret |-> r,
     events |-> ev]

Escaped(r) == r.ret \in {SystemExit, Raised}

MsgNoDriver == "ERROR: Microsoft Access ODBC Driver not found!"
MsgConnect == "ERROR connecting to database"

-----------------------------------------------------------------------------
(* Tables *)

AllTables == {"Users", "Students"}

\* INSERT INTO Users (username, password); username is UNIQUE
\* Users.username without its UNIQUE constraint.
UsernameTakenNever(us, username) == FALSE

\* username TEXT(50) UNIQUE: the INSERT raises IntegrityError
UsernameTaken(us, username) == \E i \in 1..Len(us) : us[i].username = username

InsertUser(us, username, password) ==
    Append(us, [id |-> Len(us) + 1, username |-> username, password |-> password])

\* The SELECT below without its password condition.
SelectUserByNameOnly(us, username, password) ==
    SelectSeq(us, LAMBDA r : r.username = username)

\* SELECT id FROM Users WHERE username = ? AND password = ?
SelectUser(us, username, password) ==
    SelectSeq(us, LAMBDA r : r.username = username /\ r.password = password)

\* INSERT INTO Students (student_id, name, score); student_id is UNIQUE
\* Students.student_id without its UNIQUE constraint.
StudentIdTakenNever(st, student_id) == FALSE

\* student_id TEXT(20) UNIQUE: the INSERT raises IntegrityError
StudentIdTaken(st, student_id) ==
    \E i \in 1..Len(st) : st[i].student_id = student_id

InsertStudent(st, nid, student_id, name, score) ==
    Append(st, [id |-> nid, student_id |-> student_id, name |-> name,
                score |-> score])

\* SELECT ... FROM Students WHERE student_id = ?
SelectStudent(st, student_id) ==
    SelectSeq(st, LAMBDA r : r.student_id = student_id)

\* UPDATE Students SET name = ?, score = ? WHERE student_id = ?
UpdateStudent(st, student_id, name, score) ==
    [i \in 1..Len(st) |->
        IF st[i].student_id = student_id
        THEN [st[i] EXCEPT !.name = name, !.score = score]
        ELSE st[i]]

\* A DELETE that takes the first row whatever its student_id.
DeleteStudentFirst(st, student_id) ==
    IF st = <<>> THEN st ELSE Tail(st)

\* DELETE FROM Students WHERE student_id = ?
DeleteStudent(st, student_id) ==
    SelectSeq(st, LAMBDA r : r.student_id # student_id)

\* cur.rowcount after the DELETE
RowCount(st, student_id) == Len(SelectStudent(st, student_id))

PassMark == 500     \* pass_mark=50.0, in tenths

\* The SELECT below with > for >=.
SelectPassedStrict(st, mark) == SelectSeq(st, LAMBDA r : r.score > mark)

\* SELECT ... FROM Students WHERE score >= ?
SelectPassed(st, mark) == SelectSeq(st, LAMBDA r : r.score >= mark)

\* SELECT ... FROM Students WHERE score < ?
SelectFailed(st, mark) == SelectSeq(st, LAMBDA r : r.score < mark)

\* the columns the searches and the pass/fail listings print
Shown(rows) ==
    [i \in 1..Len(rows) |->
        [student_id |-> rows[i].student_id, name |-> rows[i].name,
         score |-> rows[i].score]]

RECURSIVE SumScores(_)
SumScores(rows) ==
    IF rows = <<>> THEN 0 ELSE Head(rows).score + SumScores(Tail(rows))

-----------------------------------------------------------------------------
(* Operation functions.  db is [tables, users, students, nextId]; f is the *)
(* driver failure this call meets, if it gets that far.                    *)

\* An operation function that lets the connection error through.
NoConnectionReraises(db, a, f, msg, r) ==
    Result(db, a, f, <<MsgConnect, msg>>, Raised, <<>>)

\* get_connection() failing inside an operation's try block: SystemExit is
\* no Exception and escapes; pyodbc.Error is caught, reported and the
\* function returns `r`.
NoConnection(db, a, f, msg, r) ==
    IF get_connection(f) = SystemExit
    THEN Result(db, a, f, <<MsgNoDriver>>, SystemExit, <<>>)
    ELSE Result(db, a, f, <<MsgConnect, msg>>, r, <<>>)

\* init_db(): the except clause reports and re-raises
init_db(db, f) ==
    LET missing == AllTables \ db.tables
        msgs == IF missing = {} THEN <<>>
                ELSE IF Cardinality(missing) = 1 THEN <<"Created table.">>
                ELSE <<"Created table.", "Created table.">>
        MsgInit == "Error initializing database"
    IN  IF get_connection(f) = SystemExit
        THEN Result(db, <<>>, f, <<MsgNoDriver>>, SystemExit, <<>>)
        ELSE IF get_connection(f) = Raised
        THEN Result(db, <<>>, f, <<MsgConnect, MsgInit>>, Raised, <<>>)
        ELSE IF f = ExecuteFails
        THEN Result(db, <<>>, f, <<MsgInit>>, Raised, With(<<Execute>>, TRUE))
        ELSE IF f = CommitFails
        THEN Result(db, <<>>, f, msgs \o <<MsgInit>>, Raised,
                    With(<<Execute, Commit>>, TRUE))
        ELSE Result([db EXCEPT !.tables = AllTables], <<>>, NoFault, msgs, None,
                    With(<<Execute, Commit>>, FALSE))

\* The check below on the username alone.
EmptyCheckUsernameOnly(username, password) == username = <<>>

\* if not username or not password
EmptyCheck(username, password) == username = <<>> \/ password = <<>>

register(db, ru, rp, f) ==
    LET username == strip(ru)
        password == strip(rp)
        a == <<ru, rp>>
        MsgErr == "Error during registration"
        ins == InsertUser(db.users, username, password)
    IN  IF EmptyCheck(username, password)
        THEN Result(db, a, NoFault, <<"Username and password cannot be empty.">>,
                    None, <<>>)
        ELSE IF get_connection(f) # Connected
        THEN NoConnection(db, a, f, MsgErr, None)
        ELSE IF f = ExecuteFails
        THEN Result(db, a, f, <<MsgErr>>, None, With(<<Execute>>, TRUE))
        ELSE IF UsernameTaken(db.users, username)
        THEN Result(db, a, NoFault, <<"Username already exists.">>, None,
                    With(<<Execute>>, TRUE))
        ELSE IF f = CommitFails
        THEN Result(db, a, f, <<MsgErr>>, None, With(<<Execute, Commit>>, TRUE))
        ELSE Result([db EXCEPT !.users = ins], a, NoFault,
                    <<"User registered successfully.">>, None,
                    With(<<Execute, Commit>>, FALSE))

login(db, ru, rp, f) ==
    LET username == strip(ru)
        password == strip(rp)
        a == <<ru, rp>>
        MsgErr == "Error during login"
        row == SelectUser(db.users, username, password)
    IN  IF get_connection(f) # Connected
        THEN NoConnection(db, a, f, MsgErr, False)
        ELSE IF f = ExecuteFails
        THEN Result(db, a, f, <<MsgErr>>, False, With(<<Execute>>, TRUE))
        ELSE IF row # <<>>
        THEN Result(db, a, NoFault, <<"Welcome">>, True, With(<<Execute>>, FALSE))
        ELSE Result(db, a, NoFault, <<"Invalid username or password.">>, False,
                    With(<<Execute>>, FALSE))

add_student(db, rid, rname, rscore, f) ==
    LET student_id == strip(rid)
        name == strip(rname)
        score == float(strip(rscore))
        parses == IsFloat(strip(rscore))
        a == <<rid, rname, rscore>>
        MsgErr == "Error adding student"
        ins == InsertStudent(db.students, db.nextId, student_id, name, score)
    IN  IF ~parses
        THEN Result(db, a, NoFault, <<"Invalid score.">>, None, <<>>)
        ELSE IF get_connection(f) # Connected
        THEN NoConnection(db, a, f, MsgErr, None)
        ELSE IF f = ExecuteFails
        THEN Result(db, a, f, <<MsgErr>>, None, With(<<Execute>>, TRUE))
        ELSE IF StudentIdTaken(db.students, student_id)
        THEN Result(db, a, NoFault, <<"Student ID already exists.">>, None,
                    With(<<Execute>>, TRUE))
        ELSE IF f = CommitFails
        THEN Result(db, a, f, <<MsgErr>>, None, With(<<Execute, Commit>>, TRUE))
        ELSE Result([db EXCEPT !.students = ins, !.nextId = @ + 1], a, NoFault,
                    <<"Student added.">>, None, With(<<Execute, Commit>>, FALSE))

\* the shape shared by the read-only listings: one SELECT, then print
Query(db, a, f, MsgErr, msg, rows) ==
    IF get_connection(f) # Connected
    THEN NoConnection(db, a, f, MsgErr, None)
    ELSE IF f = ExecuteFails
    THEN Result(db, a, f, <<MsgErr>>, None, With(<<Execute>>, TRUE))
    ELSE [Result(db, a, NoFault, <<msg>>, None, With(<<Execute>>, FALSE))
            EXCEPT !.data = rows]

show_all_students(db, f) ==
    Query(db, <<>>, f, "Error fetching students",
          IF db.students = <<>> THEN "No students found." ELSE "DB_ID StuID Name Score",
          db.students)

search_student_by_id(db, rid, f) ==
    LET row == SelectStudent(db.students, strip(rid))
    IN  Query(db, <<rid>>, f, "Error searching student",
              IF row # <<>> THEN "Found" ELSE "Student not found.",
              IF row # <<>> THEN <<Shown(row)[1]>> ELSE <<>>)

search_students_by_name(db, rname, f) ==
    LET rows == SelectSeq(db.students, LAMBDA r : Like(r.name, strip(rname)))
    IN  Query(db, <<rname>>, f, "Error searching students",
              IF rows = <<>> THEN "No matching students." ELSE "ID Name Score",
              Shown(rows))

count_students(db, f) ==
    Query(db, <<>>, f, "Error counting students",
          "Total students", <<Len(db.students)>>)

\* AVG(score) is NULL over no rows; otherwise sum / count, kept as the pair
calculate_average_score(db, f) ==
    Query(db, <<>>, f, "Error calculating average score",
          IF db.students = <<>> THEN "No students to calculate average."
          ELSE "Average score",
          IF db.students = <<>> THEN <<>>
          ELSE <<SumScores(db.students), Len(db.students)>>)

show_passed_students(db, f) ==
    LET rows == SelectPassed(db.students, PassMark)
    IN  Query(db, <<>>, f, "Error fetching passed students",
              IF rows = <<>> THEN "No passed students." ELSE "Passed students:",
              Shown(rows))

show_failed_students(db, f) ==
    LET rows == SelectFailed(db.students, PassMark)
    IN  Query(db, <<>>, f, "Error fetching failed students",
              IF rows = <<>> THEN "No failed students." ELSE "Failed students:",
              Shown(rows))

\* The new name taken even when blank.
NameFinalAlwaysNew(new_name, old) == new_name

\* new_name if new_name else row.name
NameFinal(new_name, old) == IF new_name # <<>> THEN new_name ELSE old

\* score_final = row.score, replaced only by a float() that parses
ScoreFinal(new_score_input, old) ==
    IF new_score_input # <<>> /\ IsFloat(new_score_input)
    THEN float(new_score_input)
    ELSE old

update_student(db, rid, rname, rscore, f) ==
    LET student_id == strip(rid)
        MsgErr == "Error updating student"
        rows == SelectStudent(db.students, student_id)
        row == rows[1]
        a == <<rid, rname, rscore>>
        new_name == strip(rname)
        new_score_input == strip(rscore)
        name_final == NameFinal(new_name, row.name)
        score_final == ScoreFinal(new_score_input, row.score)
        current == <<[name |-> row.name, score |-> row.score]>>
        printed == IF new_score_input # <<>> /\ ~IsFloat(new_score_input)
                   THEN <<"Current", "Invalid score. Keeping old value.">>
                   ELSE <<"Current">>
        upd == UpdateStudent(db.students, student_id, name_final, score_final)
    IN  IF get_connection(f) # Connected
        THEN NoConnection(db, <<rid>>, f, MsgErr, None)
        ELSE IF f = ExecuteFails
        THEN Result(db, <<rid>>, f, <<MsgErr>>, None, With(<<Execute>>, TRUE))
        ELSE IF rows = <<>>
        THEN Result(db, <<rid>>, NoFault, <<"Student not found.">>, None,
                    With(<<Execute>>, FALSE))
        ELSE IF f = Execute2Fails
        THEN [Result(db, a, f, printed \o <<MsgErr>>, None,
                     With(<<Execute, Execute>>, TRUE)) EXCEPT !.data = current]
        ELSE IF f = CommitFails
        THEN [Result(db, a, f, printed \o <<MsgErr>>, None,
                     With(<<Execute, Execute, Commit>>, TRUE))
                EXCEPT !.data = current]
        ELSE [Result([db EXCEPT !.students = upd], a, NoFault,
                     printed \o <<"Student updated.">>, None,
                     With(<<Execute, Execute, Commit>>, FALSE))
                EXCEPT !.data = current]

delete_student(db, rid, f) ==
    LET student_id == strip(rid)
        MsgErr == "Error deleting student"
        a == <<rid>>
    IN  IF get_connection(f) # Connected
        THEN NoConnection(db, a, f, MsgErr, None)
        ELSE IF f = ExecuteFails
        THEN Result(db, a, f, <<MsgErr>>, None, With(<<Execute>>, TRUE))
        ELSE IF RowCount(db.students, student_id) = 0
        THEN Result(db, a, NoFault, <<"Student not found.">>, None,
                    With(<<Execute>>, FALSE))
        ELSE IF f = CommitFails
        THEN Result(db, a, f, <<MsgErr>>, None, With(<<Execute, Commit>>, TRUE))
        ELSE Result([db EXCEPT !.students = DeleteStudent(@, student_id)], a,
                    NoFault, <<"Student deleted.">>, None,
                    With(<<Execute, Commit>>, FALSE))

-----------------------------------------------------------------------------
(* The process: main() and student_menu_loop() *)

DB == [tables |-> tables, users |-> users, students |-> students,
       nextId |-> nextStudentId]

\* The student menu entered whatever login() returned.
AfterLoginAlways(result) == "student"

\* main(): `if login(): student_menu_loop()`
AfterLogin(result) == IF result = True THEN "student" ELSE "main"

\* student_menu_loop(): choice "11" breaks out of the loop, back into main()'s
AfterStudentExit == "main"

\* One call of an operation function from a menu, or of init_db() from main():
\* an exception that escapes it ends the process with status 1.
Call(name, r, nextpc) ==
    /\ op' = name
    /\ args' = r.args
    /\ fault' = r.fault
    /\ out' = r.out
    /\ data' = r.data
    /\ ret' = r.ret
    /\ events' = r.events
    /\ tables' = r.db.tables
    /\ users' = r.db.users
    /\ students' = r.db.students
    /\ nextStudentId' = r.db.nextId
    /\ r.db.nextId <= MaxAdds + 1
    /\ IF Escaped(r)
       THEN pc' = "done" /\ exitStatus' = 1
       ELSE pc' = nextpc /\ exitStatus' = exitStatus

\* A menu branch that calls no operation function.
Menu(name, msg, nextpc, status) ==
    /\ op' = name
    /\ args' = <<>>
    /\ fault' = NoFault
    /\ out' = <<msg>>
    /\ data' = <<>>
    /\ ret' = None
    /\ events' = <<>>
    /\ pc' = nextpc
    /\ exitStatus' = status
    /\ UNCHANGED <<tables, users, students, nextStudentId>>

Init ==
    /\ pc = "start"
    /\ exitStatus = -1
    /\ tables \in {{}, AllTables}
    /\ users = <<>>
    /\ students = <<>>
    /\ nextStudentId = 1
    /\ op = "main"
    /\ args = <<>>
    /\ fault = NoFault
    /\ out = <<>>
    /\ data = <<>>
    /\ ret = None
    /\ events = <<>>

InitDb(f) ==
    /\ pc = "start"
    /\ Call("init_db", init_db(DB, f), "main")

Register(ru, rp, f) ==
    /\ pc = "main"
    /\ Call("register", register(DB, ru, rp, f), "main")

Login(ru, rp, f) ==
    /\ pc = "main"
    /\ LET r == login(DB, ru, rp, f) IN Call("login", r, AfterLogin(r.ret))

MainExit ==
    /\ pc = "main"
    /\ Menu("sys.exit", "Exiting program.", "done", 0)

MainInvalid ==
    /\ pc = "main"
    /\ Menu("main", "Invalid choice. Try again.", "main", exitStatus)

AddStudent(rid, rname, rscore, f) ==
    /\ pc = "student"
    /\ Call("add_student", add_student(DB, rid, rname, rscore, f), "student")

ShowAllStudents(f) ==
    /\ pc = "student"
    /\ Call("show_all_students", show_all_students(DB, f), "student")

SearchStudentById(rid, f) ==
    /\ pc = "student"
    /\ Call("search_student_by_id", search_student_by_id(DB, rid, f), "student")

SearchStudentsByName(rname, f) ==
    /\ pc = "student"
    /\ Call("search_students_by_name", search_students_by_name(DB, rname, f),
            "student")

UpdateStudentOp(rid, rname, rscore, f) ==
    /\ pc = "student"
    /\ Call("update_student", update_student(DB, rid, rname, rscore, f), "student")

DeleteStudentOp(rid, f) ==
    /\ pc = "student"
    /\ Call("delete_student", delete_student(DB, rid, f), "student")

CountStudents(f) ==
    /\ pc = "student"
    /\ Call("count_students", count_students(DB, f), "student")

CalculateAverageScore(f) ==
    /\ pc = "student"
    /\ Call("calculate_average_score", calculate_average_score(DB, f), "student")

ShowPassedStudents(f) ==
    /\ pc = "student"
    /\ Call("show_passed_students", show_passed_students(DB, f), "student")

ShowFailedStudents(f) ==
    /\ pc = "student"
    /\ Call("show_failed_students", show_failed_students(DB, f), "student")

StudentExit ==
    /\ pc = "student"
    /\ Menu("student_menu_loop.break", "Goodbye!", AfterStudentExit, exitStatus)

StudentInvalid ==
    /\ pc = "student"
    /\ Menu("student_menu_loop", "Invalid choice. Try again.", "student", exitStatus)

-----------------------------------------------------------------------------
(* Inputs and specifications *)

Faults == {NoFault, NoDriver, ConnectFails, ExecuteFails, Execute2Fails, CommitFails}

UsernameInputs == {<<" ">>, <<"a">>, <<"b", " ">>}
PasswordInputs == {<<>>, <<"p">>, <<"q">>}
StudentIdInputs == {<<>>, <<" ", "1">>}
NameInputs == {<<>>, <<"A", "b">>}
FragmentInputs == {<<"b">>, <<"x">>}
ScoreInputs == {<<>>, <<"x">>, <<"4", "5">>, <<"5", "0", ".", "0">>,
                <<"9", "2", ".", "5">>}

\* One step of the process, with the prompts answered from the given sets
\* (U usernames, P passwords, I student ids, N names, G name fragments,
\* S scores) and the driver failing as in F.
Step(U, P, I, N, G, S, F) ==
    \/ \E f \in F : InitDb(f)
    \/ \E ru \in U, rp \in P, f \in F : Register(ru, rp, f)
    \/ \E ru \in U, rp \in P, f \in F : Login(ru, rp, f)
    \/ MainExit
    \/ MainInvalid
    \/ \E rid \in I, rname \in N, rscore \in S, f \in F :
        AddStudent(rid, rname, rscore, f)
    \/ \E f \in F : ShowAllStudents(f)
    \/ \E rid \in I, f \in F : SearchStudentById(rid, f)
    \/ \E rname \in G, f \in F : SearchStudentsByName(rname, f)
    \/ \E rid \in I, rname \in N, rscore \in S, f \in F :
        UpdateStudentOp(rid, rname, rscore, f)
    \/ \E rid \in I, f \in F : DeleteStudentOp(rid, f)
    \/ \E f \in F : CountStudents(f)
    \/ \E f \in F : CalculateAverageScore(f)
    \/ \E f \in F : ShowPassedStudents(f)
    \/ \E f \in F : ShowFailedStudents(f)
    \/ StudentExit
    \/ StudentInvalid

\* Every driver outcome, over one username and a few student inputs.
Next ==
    Step({<<"a">>}, {<<"p">>, <<"q">>}, StudentIdInputs, NameInputs,
         {<<"b">>}, {<<>>, <<"4", "5">>}, Faults)

Spec == Init /\ [][Next]_vars

\* Every driver outcome, over the accounts in full and one student.
NextAccounts ==
    Step(UsernameInputs, PasswordInputs, {<<" ", "1">>}, {<<"A", "b">>},
         {<<"b">>}, {<<"4", "5">>}, Faults)

SpecAccounts == Init /\ [][NextAccounts]_vars

\* The students in full, the driver working.
NextStudents ==
    Step({<<"a">>}, {<<>>, <<"p">>}, StudentIdInputs, NameInputs, FragmentInputs,
         ScoreInputs, {NoFault})

SpecStudents == Init /\ [][NextStudents]_vars

-----------------------------------------------------------------------------
(* Properties *)

Has(seq, x) == \E i \in 1..Len(seq) : seq[i] = x
Count(seq, x) == Cardinality({i \in 1..Len(seq) : seq[i] = x})
Last(seq) == seq[Len(seq)]
Without(seq, k) == SubSeq(seq, 1, k - 1) \o SubSeq(seq, k + 1, Len(seq))

StudentOps ==
    {"add_student", "show_all_students", "search_student_by_id",
     "search_students_by_name", "update_student", "delete_student",
     "count_students", "calculate_average_score", "show_passed_students",
     "show_failed_students"}

MenuOps == StudentOps \cup {"register", "login"}

MutatingOps == {"register", "add_student", "update_student", "delete_student"}

SuccessMsgs ==
    {"User registered successfully.", "Student added.", "Student updated.",
     "Student deleted."}

\* C1: a Student Store operation runs only while the session is in the
\* student menu; the student menu is entered only by a login() that returned
\* True; a login() that did not return True leaves the session in the main
\* menu; choice 11 of the student menu goes back to the main menu and the
\* process keeps running.
C1_StudentOpsOnlyAuthenticated ==
    [][ /\ (op' \in StudentOps => pc = "student")
        /\ (pc # "student" /\ pc' = "student" => op' = "login" /\ ret' = True)
        /\ (op' = "login" /\ ret' # True => pc' # "student")
        /\ (op' = "student_menu_loop.break" =>
                pc = "student" /\ pc' = "main" /\ exitStatus' = -1) ]_vars

\* a session was opened, a student was added in it, and choice 11 brought the
\* process back to the main menu
C1_Witness ==
    pc = "main" /\ op = "student_menu_loop.break" /\ students # <<>>

\* C2 as claimed: the process ends only through the missing driver found at
\* startup (status not 0) or through Exit at the main menu (status 0).
C2_Claimed ==
    pc = "done" =>
        \/ op = "init_db" /\ fault = NoDriver /\ exitStatus # 0
        \/ op = "sys.exit" /\ exitStatus = 0

\* C2 amended: the process ends only (a) with status 1 through the missing
\* driver found by get_connection(), at startup or in any later operation,
\* (b) with status 1 through a connection, statement or commit failure inside
\* init_db() at startup, which reports it and re-raises, or (c) with status 0
\* through Exit at the main menu; a driver failure inside a menu operation
\* other than the missing driver is reported and leaves the process in the
\* menu it was in.
C2_Termination ==
    /\ pc = "done" =>
        \/ ret = SystemExit /\ fault = NoDriver /\ exitStatus = 1
        \/ /\ op = "init_db" /\ ret = Raised /\ exitStatus = 1
           /\ fault \in {ConnectFails, ExecuteFails, CommitFails}
        \/ op = "sys.exit" /\ exitStatus = 0
    /\ op \in MenuOps /\ fault \in Faults \ {NoFault, NoDriver} =>
        /\ exitStatus = -1
        /\ pc = IF op \in StudentOps THEN "student" ELSE "main"
        /\ out # <<>>
        /\ fault = ConnectFails => Has(out, MsgConnect)

\* a connection failed inside a session and the student menu is shown again
C2_Witness ==
    pc = "student" /\ fault = ConnectFails /\ Has(out, MsgConnect)

Authenticates(us, ru, rp) == login([DB EXCEPT !.users = us], ru, rp, NoFault).ret = True

Stored(us, username, password) ==
    \E i \in 1..Len(us) : us[i].username = username /\ us[i].password = password

\* C4 as claimed: register() answered with a non-empty username not yet
\* registered and a non-empty password, the driver working, makes login()
\* with the same answers return True from then on; login() returns True only
\* for answers equal on both fields to a stored account.
C4_Claimed ==
    [][ /\ (/\ op' = "register" /\ fault' = NoFault
            /\ args'[1] # <<>> /\ args'[2] # <<>>
            /\ ~UsernameTaken(users, strip(args'[1]))
            => Authenticates(users', args'[1], args'[2]))
        /\ \A ru \in UsernameInputs, rp \in PasswordInputs :
            Authenticates(users, ru, rp) => Authenticates(users', ru, rp)
        /\ (op' = "login" /\ ret' = True => Stored(users', args'[1], args'[2])) ]_vars

\* C4 amended: the same, with "non-empty" and "equal" taken after leading and
\* trailing whitespace is stripped from what was typed: a username or
\* password of whitespace only is rejected as empty, and login() returns True
\* exactly when the stripped answers equal a stored account on both fields.
C4_RegisterThenLogin ==
    [][ /\ (/\ op' = "register" /\ fault' = NoFault
            /\ strip(args'[1]) # <<>> /\ strip(args'[2]) # <<>>
            /\ ~UsernameTaken(users, strip(args'[1]))
            => /\ out' = <<"User registered successfully.">>
               /\ Authenticates(users', args'[1], args'[2]))
        /\ \A ru \in UsernameInputs, rp \in PasswordInputs :
            Authenticates(users, ru, rp) => Authenticates(users', ru, rp)
        /\ (op' = "login" /\ fault' = NoFault =>
                (ret' = True <=> Stored(users', strip(args'[1]), strip(args'[2]))))
        /\ (op' = "login" /\ fault' # NoFault => ret' # True) ]_vars

\* an account registered as "b " is logged into, and another password for the
\* same name was refused before
C4_Witness ==
    /\ op = "login" /\ ret = True /\ args[1] = <<"b", " ">>
    /\ Stored(users, <<"b">>, args[2])

\* C5: register() with a username already present reports "Username already
\* exists." and leaves Users as it was; no step of the process changes or
\* removes a row of Users; no two rows of Users share a username.
C5_DuplicateUsername ==
    [][ /\ (/\ op' = "register" /\ strip(args'[2]) # <<>>
            /\ UsernameTaken(users, strip(args'[1]))
            => /\ users' = users
               /\ fault' = NoFault => out' = <<"Username already exists.">>
               /\ ~Has(events', Commit))
        /\ Len(users') >= Len(users)
        /\ \A i \in 1..Len(users) : users'[i] = users[i]
        /\ \A i, j \in 1..Len(users') :
            users'[i].username = users'[j].username => i = j ]_vars

\* "a" registered with one password, then refused with another: the first
\* password still logs in, the second does not
C5_Witness ==
    /\ op = "register" /\ out = <<"Username already exists.">>
    /\ args = <<<<"a">>, <<"q">>>>
    /\ Authenticates(users, <<"a">>, <<"p">>)
    /\ ~Authenticates(users, <<"a">>, <<"q">>)

\* C6: add with a student_id already stored reports "Student ID already
\* exists." and leaves Students as it was; after any sequence of operations no
\* two rows of Students share a student_id.
C6_DuplicateStudentId ==
    [][ /\ (/\ op' = "add_student" /\ IsFloat(args'[3])
            /\ StudentIdTaken(students, strip(args'[1]))
            => /\ students' = students
               /\ fault' = NoFault => out' = <<"Student ID already exists.">>
               /\ ~Has(events', Commit))
        /\ \A i, j \in 1..Len(students') :
            students'[i].student_id = students'[j].student_id => i = j ]_vars

\* a second add of a stored id, under another name, was refused while another
\* row is stored too
C6_Witness ==
    /\ op = "add_student" /\ out = <<"Student ID already exists.">>
    /\ Len(students) = 2
    /\ \E i \in 1..2 :
        /\ students[i].student_id = strip(args[1])
        /\ students[i].name # strip(args[2])

\* C7: delete of a student_id that matches no row reports "Student not
\* found." (the affected-row count is zero), commits nothing and leaves
\* Students as it was; delete of a stored student_id commits and removes that
\* row and no other; a delete that meets a driver failure changes nothing.
C7_Delete ==
    [][ op' = "delete_student" =>
        LET sid == strip(args'[1]) IN
        /\ fault' = NoFault /\ ~StudentIdTaken(students, sid) =>
            /\ out' = <<"Student not found.">>
            /\ ~Has(events', Commit)
            /\ students' = students
        /\ fault' = NoFault /\ StudentIdTaken(students, sid) =>
            /\ out' = <<"Student deleted.">>
            /\ Has(events', Commit)
            /\ \E k \in 1..Len(students) :
                /\ students[k].student_id = sid
                /\ students' = Without(students, k)
        /\ fault' # NoFault => students' = students ]_vars

\* one of two stored rows was deleted and the other is still there
C7_Witness ==
    op = "delete_student" /\ out = <<"Student deleted.">> /\ Len(students) = 1

\* C8: update of a student_id that matches no row reports "Student not
\* found." and changes nothing; update of a stored one succeeds, keeps the
\* name when the new name is blank, keeps the score when the new score is
\* blank, and in every case leaves student_id, id and every other row alone.
C8_Update ==
    [][ op' = "update_student" /\ fault' = NoFault =>
        LET sid == strip(args'[1]) IN
        IF ~StudentIdTaken(students, sid)
        THEN out' = <<"Student not found.">> /\ students' = students
        ELSE /\ Last(out') = "Student updated."
             /\ Len(students') = Len(students)
             /\ \A i \in 1..Len(students) :
                 /\ students'[i].id = students[i].id
                 /\ students'[i].student_id = students[i].student_id
                 /\ students[i].student_id # sid => students'[i] = students[i]
                 /\ strip(args'[2]) = <<>> => students'[i].name = students[i].name
                 /\ strip(args'[3]) = <<>> => students'[i].score = students[i].score
                 /\ students[i].student_id = sid /\ strip(args'[2]) # <<>> =>
                        students'[i].name = strip(args'[2])
                 /\ students[i].student_id = sid /\ IsFloat(args'[3]) =>
                        students'[i].score = float(args'[3]) ]_vars

\* an update with both answers blank succeeded on one of two stored rows
C8_Witness ==
    /\ op = "update_student" /\ out = <<"Current", "Student updated.">>
    /\ strip(args[2]) = <<>> /\ strip(args[3]) = <<>>
    /\ Len(students) = 2

\* the INSERT or UPDATE of the operation was sent to the database
MutatingStatementExecuted(o, ev) ==
    IF o = "update_student" THEN Count(ev, Execute) >= 2 ELSE Has(ev, Execute)

\* the answers the claim calls invalid input
InvalidInput(o, a) ==
    \/ o = "register" /\ (strip(a[1]) = <<>> \/ strip(a[2]) = <<>>)
    \/ o = "add_student" /\
        (~IsFloat(a[3]) \/ strip(a[1]) = <<>> \/ strip(a[2]) = <<>>)
    \/ o = "update_student" /\ Len(a) = 3 /\ strip(a[3]) # <<>> /\ ~IsFloat(a[3])

\* C9 as claimed: whenever add, update or register is given an unparsable
\* score or an empty required field, it executes no mutating statement and
\* the store is unchanged.
C9_Claimed ==
    [][ InvalidInput(op', args') =>
            /\ ~MutatingStatementExecuted(op', events')
            /\ users' = users /\ students' = students ]_vars

\* C9 amended: add given an unparsable score, and register given a username
\* or password that is empty once stripped, report it and return before any
\* connection is opened, the store unchanged.  add does not check student_id
\* or name: an empty one goes into the INSERT like any other.  update given an
\* unparsable new score reports it, keeps the old score, and still runs and
\* commits its UPDATE, which applies a new name that is not blank.
C9_InvalidInput ==
    [][ /\ (\/ op' = "register" /\ (strip(args'[1]) = <<>> \/ strip(args'[2]) = <<>>)
            \/ op' = "add_student" /\ ~IsFloat(args'[3])
            => /\ events' = <<>>
               /\ users' = users /\ students' = students
               /\ out' \in {<<"Username and password cannot be empty.">>,
                            <<"Invalid score.">>})
        /\ (/\ op' = "add_student" /\ IsFloat(args'[3]) /\ fault' = NoFault
            /\ ~StudentIdTaken(students, strip(args'[1]))
            => /\ out' = <<"Student added.">>
               /\ Last(students').student_id = strip(args'[1])
               /\ Last(students').name = strip(args'[2]))
        /\ (/\ op' = "update_student" /\ fault' = NoFault
            /\ InvalidInput(op', args')
            => /\ out' = <<"Current", "Invalid score. Keeping old value.",
                           "Student updated.">>
               /\ events' = <<Open, Execute, Execute, Commit, Release>>
               /\ \A i \in 1..Len(students) :
                    /\ students'[i].score = students[i].score
                    /\ students[i].student_id = strip(args'[1])
                       /\ strip(args'[2]) # <<>> =>
                            students'[i].name = strip(args'[2])) ]_vars

\* an update answered with a new name and an unparsable score renamed the row
C9_Witness ==
    /\ op = "update_student" /\ Has(out, "Invalid score. Keeping old value.")
    /\ Last(out) = "Student updated."
    /\ \E i \in 1..Len(students) :
        /\ students[i].student_id = strip(args[1])
        /\ students[i].name = strip(args[2])
        /\ data[1].name # students[i].name

\* C10: the rows show_passed_students() lists and the rows
\* show_failed_students() lists are, between them, every stored row exactly
\* once, and a row whose score is exactly 50.0 is among the passed.
C10_Partition ==
    LET passed == show_passed_students(DB, NoFault).data
        failed == show_failed_students(DB, NoFault).data
        all == Shown(students)
    IN  /\ Len(passed) + Len(failed) = Len(all)
        /\ \A i \in 1..Len(all) :
            /\ Count(passed, all[i]) + Count(failed, all[i]) = 1
            /\ all[i].score = PassMark => Has(passed, all[i])
            /\ all[i].score > PassMark => Has(passed, all[i])
            /\ all[i].score < PassMark => Has(failed, all[i])
        /\ op = "show_passed_students" /\ fault = NoFault => data = passed
        /\ op = "show_failed_students" /\ fault = NoFault => data = failed

\* the passed listing was printed over a row at exactly 50.0 and a row below
C10_Witness ==
    /\ op = "show_passed_students"
    /\ Len(data) = 1 /\ data[1].score = PassMark
    /\ Len(students) = 2

====
